---- MODULE Spec2Model ----
(***************************************************************************)
(* PAQMan (CEO-netizen/paqman): the archive container layer of main.cpp.   *)
(*                                                                         *)
(* The model follows the newest main.cpp (the one with compressDirectory,  *)
(* decompressToDirectory and listArchiveContents).  One behaviour is a     *)
(* short series of process runs over one file system: every run is either  *)
(* main(argc, argv) or a call of listArchiveContents, which main.cpp       *)
(* defines but main never dispatches to.                                   *)
(*                                                                         *)
(* Bytes are integers 0..255, strings are sequences of bytes, a file's     *)
(* content is a sequence of items: raw runs of bytes for plain files and   *)
(* the engine's framing items (header, name, data, segment end, block end) *)
(* for archives.  The libzpaq engine is not part of the sources; it is     *)
(* modelled from its contract.                                             *)
(***************************************************************************)
EXTENDS Integers, Sequences, FiniteSets, TLC

\* ------------------------------------------------------------------ bytes
Slash == 47
Dot == 46
NameCap == 4095
ChunkMax == 1000000
EndOfStream == 0 - 1

Min(a, b) == IF a < b THEN a ELSE b

\* int -> char: the value a char holds after `buf[len] = d.get()`, read back
\* as an int.  Whether plain char is signed is a property of the build.
ToChar(v, isSigned) ==
    LET m == v % 256
    IN  IF isSigned /\ m >= 128 THEN m - 256 ELSE m

\* char -> the byte stored in the std::string
ToByte(c) == c % 256

\* d.get() on the k-th call (k >= 1) after findFilename: the bytes of the
\* segment name, then the end-of-stream sentinel.
EngineGet(delivered, k) ==
    IF k <= Len(delivered) THEN delivered[k] ELSE EndOfStream

\* The value of len when the loop
\*   while ((buf[len] = d.get()) != -1 && len < 4095) ++len;
\* ends.
ReadNameLen(delivered, isSigned) ==
    LET stops == {l \in 0..NameCap :
                    \/ ToChar(EngineGet(delivered, l + 1), isSigned) = EndOfStream
                    \/ ~(l < NameCap)}
    IN  CHOOSE l \in stops : \A m \in stops : l <= m

\* buf[0..len-1] after the loop; buf[len] = 0 follows.
ReadNameBuf(delivered, isSigned) ==
    LET len == ReadNameLen(delivered, isSigned)
    IN  SubSeq([i \in 1..len |-> ToChar(EngineGet(delivered, i), isSigned)], 1, len)

\* `filename = buf`: a C string ends at its first NUL.
CString(buf) ==
    LET nuls == {i \in 1..Len(buf) : buf[i] = 0}
        n == IF nuls = {} THEN Len(buf)
             ELSE (CHOOSE i \in nuls : \A j \in nuls : i <= j) - 1
    IN  SubSeq([i \in 1..n |-> ToByte(buf[i])], 1, n)

ReadName(delivered, isSigned) == CString(ReadNameBuf(delivered, isSigned))

\* ------------------------------------------------------------------ paths
IsAbsolute(s) == Len(s) > 0 /\ s[1] = Slash

\* The components of a path string, in order; empty components are dropped.
Components(s) ==
    LET cuts == {0, Len(s) + 1} \cup {i \in 1..Len(s) : s[i] = Slash}
        starts == {c \in cuts : c <= Len(s) /\ (c + 1) \notin cuts}
        nth(k) == CHOOSE c \in starts : Cardinality({x \in starts : x < c}) = k - 1
        stop(c) == CHOOSE e \in cuts : e > c /\ \A x \in cuts : x > c => e <= x
    IN  [k \in 1..Cardinality(starts) |-> SubSeq(s, nth(k) + 1, stop(nth(k)) - 1)]

\* fs::path(base) / name
PathAppend(base, name) ==
    IF IsAbsolute(name) THEN name
    ELSE IF Len(base) > 0 /\ base[Len(base)] # Slash THEN base \o <<Slash>> \o name
    ELSE base \o name

\* The location a path string names, as the components from the file system
\* root: "." stays, ".." goes up (the root is its own parent).
RECURSIVE WalkFrom(_, _)
WalkFrom(at, comps) ==
    IF comps = <<>> THEN at
    ELSE LET c == Head(comps)
             to == IF c = <<Dot>> THEN at
                   ELSE IF c = <<Dot, Dot>>
                        THEN (IF at = <<>> THEN at ELSE SubSeq(at, 1, Len(at) - 1))
                   ELSE Append(at, c)
         IN  WalkFrom(to, Tail(comps))

Cwd == << <<119>> >>

Resolve(s) == WalkFrom(IF IsAbsolute(s) THEN <<>> ELSE Cwd, Components(s))

\* path::parent_path(): the string without its last component.
ParentPath(s) ==
    LET cuts == {i \in 1..Len(s) : s[i] = Slash}
        last == IF cuts = {} THEN 0 ELSE CHOOSE i \in cuts : \A j \in cuts : j <= i
    IN  IF last = 0 THEN <<>>
        ELSE IF last = 1 THEN <<Slash>>
        ELSE SubSeq(s, 1, last - 1)

IsPrefix(p, q) == Len(p) <= Len(q) /\ SubSeq(q, 1, Len(p)) = p

\* ------------------------------------------------------------------ items
\* What a file holds: raw runs of n equal bytes b (plain files), or the
\* engine's framing items (archives).
Item(t, name, b, n) == [t |-> t, name |-> name, b |-> b, n |-> n, of |-> <<>>]
Raw(b, n) == Item("raw", <<>>, b, n)
Hdr(level) == Item("hdr", <<>>, 0, level)
NameItem(name) == Item("name", name, 0, 0)
Data(b, n) == Item("data", <<>>, b, n)
SegEnd == Item("end", <<>>, 0, 0)
BlockEnd == Item("eob", <<>>, 0, 0)
\* The payload form of an input item that is not a raw run (an archive given
\* as input): it travels whole and counts as one byte.
Wrap(it) == [t |-> "data", name |-> <<>>, b |-> 0, n |-> 1, of |-> <<it>>]
Payload(it) == IF it.t = "raw" THEN Data(it.b, it.n) ELSE Wrap(it)
Unpayload(d) == IF d.of = <<>> THEN Raw(d.b, d.n) ELSE d.of[1]
IsFullPiece(it) == it.t = "data" /\ it.of = <<>> /\ it.n = ChunkMax

\* Appending to a file: raw runs of the same byte merge, nothing else does.
AppendItem(content, it) ==
    IF it.t = "raw" /\ it.n = 0 THEN content
    ELSE IF /\ it.t = "raw" /\ content # <<>>
            /\ content[Len(content)].t = "raw" /\ content[Len(content)].b = it.b
         THEN [content EXCEPT ![Len(content)].n = @ + it.n]
    ELSE Append(content, it)

RECURSIVE AppendAll(_, _)
AppendAll(content, items) ==
    IF items = <<>> THEN content
    ELSE AppendAll(AppendItem(content, Head(items)), Tail(items))

\* ------------------------------------------------------------ file system
\* A file system is a set of entries, one per location.
DirEntry(p) == [path |-> p, kind |-> "dir", content |-> <<>>, readable |-> TRUE]
FileEntry(p, c, r) == [path |-> p, kind |-> "file", content |-> c, readable |-> r]

Has(fs, p) == \E e \in fs : e.path = p
At(fs, p) == CHOOSE e \in fs : e.path = p
IsDirAt(fs, p) == Has(fs, p) /\ At(fs, p).kind = "dir"
IsFileAt(fs, p) == Has(fs, p) /\ At(fs, p).kind = "file"
Parent(p) == IF p = <<>> THEN p ELSE SubSeq(p, 1, Len(p) - 1)

\* The locations a path string passes through, the last one included.
Passes(s) ==
    LET comps == Components(s)
        from == IF IsAbsolute(s) THEN <<>> ELSE Cwd
    IN  {WalkFrom(from, SubSeq(comps, 1, k)) : k \in 0..Len(comps)}

\* fs::create_directories(s): whether it succeeds, and the file system after.
CanCreateDirectories(fs, s) == \A p \in Passes(s) : ~IsFileAt(fs, p)
NewDirectories(fs, s) == {q \in Passes(s) : ~Has(fs, q)}
CreateDirectories(fs, s) == fs \cup {DirEntry(p) : p \in NewDirectories(fs, s)}

\* std::ofstream::open(s, binary): creates or truncates a regular file.
CanOpenForWrite(fs, s) ==
    /\ Len(s) > 0
    /\ s[Len(s)] # Slash
    /\ \A p \in Passes(s) \ {Resolve(s)} : IsDirAt(fs, p)
    /\ ~IsDirAt(fs, Resolve(s))
OpenForWrite(fs, s) ==
    {e \in fs : e.path # Resolve(s)} \cup {FileEntry(Resolve(s), <<>>, TRUE)}

\* std::ifstream::open(s, binary); a directory opens and reads as empty.
CanOpenForRead(fs, s) ==
    /\ Len(s) > 0
    /\ \A p \in Passes(s) \ {Resolve(s)} : IsDirAt(fs, p)
    /\ Has(fs, Resolve(s))
    /\ At(fs, Resolve(s)).readable
ContentAt(fs, s) == At(fs, Resolve(s)).content

WriteThrough(fs, p, items) ==
    IF ~IsFileAt(fs, p) THEN fs
    ELSE {e \in fs : e.path # p}
           \cup {[At(fs, p) EXCEPT !.content = AppendAll(@, items)]}

\* fs::relative(entry, inputDir).string() for an entry below inputDir
RECURSIVE JoinPath(_)
JoinPath(comps) ==
    IF comps = <<>> THEN <<>>
    ELSE IF Len(comps) = 1 THEN comps[1]
    ELSE comps[1] \o <<Slash>> \o JoinPath(Tail(comps))

RelativeName(p, root) == JoinPath(SubSeq(p, Len(root) + 1, Len(p)))

\* std::string operator< : lexicographic on bytes
RECURSIVE StrLess(_, _)
StrLess(a, b) ==
    IF b = <<>> THEN FALSE
    ELSE IF a = <<>> THEN TRUE
    ELSE IF a[1] # b[1] THEN a[1] < b[1]
    ELSE StrLess(Tail(a), Tail(b))

\* ---------------------------------------------------------------- bounds
\* Items a std::ofstream holds back before it writes them through.
BufCap == 2
\* I/O faults the environment injects in one series of runs.
MaxFaults == 1

\* ------------------------------------------------------- names and inputs
NoStatus == 0 - 1

sW == <<119>>
sIn == <<105, 110>>
sAbsIn == <<47, 119, 47, 105, 110>>
sArc == <<97, 114, 99>>
sArcX == <<97, 114, 99, 47, 120>>
sOut == <<111, 117, 116>>
sA == <<97>>
sB == <<98>>
sD == <<100>>
sHelp == <<45, 45, 104, 101, 108, 112>>
mC == <<99>>
mD == <<100>>
mL == <<108>>
mX == <<120>>
LongName == [i \in 1..(NameCap + 2) |-> 97]

pIn == <<sW, sIn>>
pArc == <<sW, sArc>>
pOut == <<sW, sOut>>

c0 == <<>>
c3 == <<Raw(1, 3)>>
cM == <<Raw(2, ChunkMax)>>
cM1 == <<Raw(2, ChunkMax + 1)>>
\* cM1 in the pieces compress(ChunkMax) writes it in.
cM1Pieces == <<Raw(2, ChunkMax), Raw(2, 1)>>

\* The method strings tried: "0", "3", "5", "6", "/", "", "10", "05", "-1", ":".
Methods ==
    {<<48>>, <<51>>, <<53>>, <<54>>, <<47>>, <<>>, <<49, 48>>, <<48, 53>>,
     <<45, 49>>, <<58>>}

Segment(name, content) ==
    <<NameItem(name)>>
      \o [i \in 1..Len(content) |-> Data(content[i].b, content[i].n)]
      \o <<SegEnd>>

RECURSIVE Segments(_)
Segments(segs) ==
    IF segs = <<>> THEN <<>>
    ELSE Segment(segs[1][1], segs[1][2]) \o Segments(Tail(segs))

Archive(segs) == <<Hdr(5)>> \o Segments(segs) \o <<BlockEnd>>

\* What /w/in is when the series starts.
Trees ==
    { {DirEntry(pIn)},
      {DirEntry(pIn), FileEntry(pIn \o <<sA>>, c3, TRUE)},
      {DirEntry(pIn), FileEntry(pIn \o <<sA>>, c3, TRUE),
       DirEntry(pIn \o <<sD>>), FileEntry(pIn \o <<sD, sB>>, cM1, TRUE)},
      {DirEntry(pIn), FileEntry(pIn \o <<sA>>, c0, TRUE), DirEntry(pIn \o <<sD>>)},
      {DirEntry(pIn), FileEntry(pIn \o <<sA>>, c3, FALSE)},
      {DirEntry(pIn), FileEntry(pIn \o <<sA>>, c3, TRUE),
       FileEntry(pIn \o <<sB>>, cM, FALSE)},
      {DirEntry(pIn), FileEntry(pIn \o << <<97, 255>> >>, c3, TRUE)} }

ArchiveContents ==
    { Archive(<< <<sA, c3>> >>),
      Archive(<< <<sA, c3>>, << <<100, 47, 98>>, cM1Pieces>> >>),
      Archive(<< << <<46, 46, 47, 97>>, c3>> >>),
      Archive(<< << <<47, 97>>, c3>> >>),
      Archive(<< <<sA, c3>>, <<sA, c0>> >>),
      Archive(<< <<sA, c3>>, << <<46, 47, 97>>, c3>> >>),
      Archive(<< <<sA, c3>>, << <<97, 47, 98>>, c3>> >>),
      Archive(<< <<LongName, c3>> >>),
      Archive(<< << <<97, 0, 98>>, c3>> >>),
      Archive(<< << <<97, 255, 98>>, c3>> >>),
      Archive(<< << <<>>, c3>> >>),
      Archive(<< <<sA, cM>> >>),
      Archive(<< >>),
      <<Hdr(5), NameItem(sA), Data(1, 3)>>,
      <<Hdr(5), NameItem(sA), Data(1, 3), SegEnd>> }

PlainContents == {c0, c3, cM}

Worlds ==
    {{}} \cup Trees
         \cup {{FileEntry(pIn, c, TRUE)} : c \in ArchiveContents \cup PlainContents}

\* One run: main(argc, argv) with argv[1..] = args, or listArchiveContents(args[1]).
Cmd(args) == [entry |-> "main", args |-> args]
ListCall(input) == [entry |-> "list", args |-> <<input>>]

Sessions ==
    { <<Cmd(<<>>)>>, <<Cmd(<<sHelp>>)>>,
      <<Cmd(<<mL, sIn>>)>>, <<Cmd(<<mL, sIn, sOut>>)>>,
      <<Cmd(<<mC, sIn>>)>>, <<Cmd(<<mX, sIn, sOut>>)>>,
      <<Cmd(<<mC, sIn, sArc>>), Cmd(<<mD, sArc, sOut>>)>>,
      <<Cmd(<<mC, sIn, sArc>>), ListCall(sArc)>>,
      <<Cmd(<<mC, sAbsIn, sArc>>), Cmd(<<mD, sArc, sOut>>)>>,
      <<Cmd(<<mD, sIn, sOut>>), ListCall(sIn)>>,
      <<ListCall(sIn), Cmd(<<mD, sIn, sOut>>)>>,
      <<Cmd(<<mC, sIn, sArcX>>)>> }
      \cup { <<Cmd(<<mC, sIn, sArc, m>>)>> : m \in Methods }

\* ------------------------------------------------------------------ state
VARIABLES
    fsys,        \* the file system
    charSigned,  \* whether plain char is signed in this build
    session,     \* the runs still to come
    log,         \* what the finished runs did
    pc,          \* where the current run is
    entry,       \* "main" or "list": how the current run was entered
    argv,        \* argv[1..] of the current run
    method,      \* the method string main passes on
    exitStatus,  \* the process exit status, NoStatus while there is none
    raised,      \* the exception in flight or caught: "none" or its kind
    diag,        \* which diagnostic the run printed
    calls,       \* the engine calls of the current run, in order
    sinks,       \* every FileWriter the current run constructed
    rd,          \* the archive Source of the reader
    inp,         \* the file Source of the writer
    walk,        \* directory entries the iteration has not visited yet
    cur,         \* the entry or segment being handled
    printed,     \* the names List printed, in order
    made,        \* the directories the current run created
    faults,      \* I/O faults injected so far
    dropped,     \* a byte given to FileWriter::put/write was not accepted
    readFailed   \* a read of a FileReader failed

vars == <<fsys, charSigned, session, log, pc, entry, argv, method, exitStatus,
          raised, diag, calls, sinks, rd, inp, walk, cur, printed, made, faults,
          dropped, readFailed>>

NoSource == [open |-> FALSE, failed |-> FALSE, items |-> <<>>]
NoInput == [open |-> FALSE, failed |-> FALSE, items |-> <<>>]
NoCur == [name |-> <<>>, delivered |-> <<>>, path |-> <<>>]

Init ==
    /\ \E w \in Worlds : fsys = {DirEntry(<<>>), DirEntry(Cwd)} \cup w
    /\ (charSigned = TRUE \/ charSigned = FALSE)
    /\ session \in Sessions
    /\ log = <<>>
    /\ pc = "idle"
    /\ entry = "main"
    /\ argv = <<>>
    /\ method = <<>>
    /\ exitStatus = NoStatus
    /\ raised = "none"
    /\ diag = "none"
    /\ calls = <<>>
    /\ sinks = <<>>
    /\ rd = NoSource
    /\ inp = NoInput
    /\ walk = {}
    /\ cur = NoCur
    /\ printed = <<>>
    /\ made = {}
    /\ faults = 0
    /\ dropped = FALSE
    /\ readFailed = FALSE

\* ------------------------------------------------------------- FileWriter
NewSink(s, auto) ==
    [path |-> Resolve(s), open |-> TRUE, pending |-> <<>>, bad |-> FALSE,
     auto |-> auto]

\* FileWriter::put / FileWriter::write of one item: the stream keeps it back
\* until its buffer is full; a stream in a failed state takes nothing, and
\* neither method looks at the stream's state.
SinkPut(sk, fs, it) ==
    IF sk.bad THEN [sk |-> sk, fs |-> fs]
    ELSE IF Len(sk.pending) >= BufCap
         THEN [sk |-> [sk EXCEPT !.pending = <<it>>],
               fs |-> WriteThrough(fs, sk.path, sk.pending)]
    ELSE [sk |-> [sk EXCEPT !.pending = Append(@, it)], fs |-> fs]

RECURSIVE SinkPutAll(_, _, _)
SinkPutAll(sk, fs, items) ==
    IF items = <<>> THEN [sk |-> sk, fs |-> fs]
    ELSE LET r == SinkPut(sk, fs, Head(items))
         IN  SinkPutAll(r.sk, r.fs, Tail(items))

\* FileWriter::~FileWriter: flush, then close.
SinkClose(sk, fs) ==
    IF ~sk.open THEN [sk |-> sk, fs |-> fs]
    ELSE [sk |-> [sk EXCEPT !.open = FALSE, !.pending = <<>>],
          fs |-> IF sk.bad THEN fs ELSE WriteThrough(fs, sk.path, sk.pending)]

\* The destructors of the FileWriters with automatic storage, as the stack
\* unwinds or a function returns.
RECURSIVE CloseAuto(_, _, _)
CloseAuto(sks, fs, i) ==
    IF i > Len(sks) THEN [sks |-> sks, fs |-> fs]
    ELSE IF sks[i].auto
         THEN LET r == SinkClose(sks[i], fs)
              IN  CloseAuto([sks EXCEPT ![i] = r.sk], r.fs, i + 1)
    ELSE CloseAuto(sks, fs, i + 1)

Call(op, arg, ret) == [op |-> op, arg |-> arg, ret |-> ret]

\* ------------------------------------------------------------------- main
Argc == Len(argv) + 1

\* MethodValid with the upper limit off by one.
MethodValidUpTo6(m) == ~(Len(m) # 1 \/ StrLess(m, <<48>>) \/ StrLess(<<54>>, m))

\* main's test of the method string
MethodValid(m) == ~(Len(m) # 1 \/ StrLess(m, <<48>>) \/ StrLess(<<53>>, m))

\* atoi on a method string
RECURSIVE Atoi(_)
Atoi(m) ==
    IF m = <<>> \/ m[Len(m)] \notin 48..57 THEN 0
    ELSE 10 * Atoi(SubSeq(m, 1, Len(m) - 1)) + (m[Len(m)] - 48)

runVars == <<entry, argv>>
ioVars == <<faults, dropped, readFailed>>
engineVars == <<calls, sinks, rd, inp, walk, cur, printed, made>>

Exit(status, d) ==
    /\ pc' = "exited"
    /\ exitStatus' = status
    /\ diag' = d

\* A run starts.
Launch ==
    /\ pc = "idle"
    /\ session # <<>>
    /\ session' = Tail(session)
    /\ entry' = Head(session).entry
    /\ argv' = Head(session).args
    /\ pc' = IF Head(session).entry = "main" THEN "main" ELSE "ls_open"
    /\ UNCHANGED <<fsys, charSigned, log, method, exitStatus, raised, diag,
                   engineVars, ioVars>>

WantsUsage == IF Argc < 2 THEN TRUE ELSE argv[1] = sHelp

\* argc < 2 or --help: usage, return 0.
MainUsage ==
    /\ pc = "main"
    /\ WantsUsage
    /\ Exit(0, "usage")
    /\ UNCHANGED <<fsys, charSigned, session, log, runVars, method, raised,
                   engineVars, ioVars>>

\* argc < 4: "Insufficient arguments", return 1.
MainInsufficient ==
    /\ pc = "main"
    /\ ~WantsUsage
    /\ Argc < 4
    /\ Exit(1, "insufficient")
    /\ UNCHANGED <<fsys, charSigned, session, log, runVars, method, raised,
                   engineVars, ioVars>>

MainReady ==
    /\ pc = "main"
    /\ ~WantsUsage
    /\ ~(Argc < 4)

\* std::ifstream check(input); !check.good(): return 1.
MainNoInput ==
    /\ MainReady
    /\ ~CanOpenForRead(fsys, argv[2])
    /\ Exit(1, "noinput")
    /\ UNCHANGED <<fsys, charSigned, session, log, runVars, method, raised,
                   engineVars, ioVars>>

MethodArg == IF Argc > 4 THEN argv[4] ELSE <<53>>

\* mode "c" with a method outside "0".."5": return 1.
MainBadMethod ==
    /\ MainReady
    /\ CanOpenForRead(fsys, argv[2])
    /\ argv[1] = mC
    /\ ~MethodValid(MethodArg)
    /\ method' = MethodArg
    /\ Exit(1, "badmethod")
    /\ UNCHANGED <<fsys, charSigned, session, log, runVars, raised,
                   engineVars, ioVars>>

\* mode "c": compressDirectory for a directory, compressFile otherwise.
MainCompress ==
    /\ MainReady
    /\ CanOpenForRead(fsys, argv[2])
    /\ argv[1] = mC
    /\ MethodValid(MethodArg)
    /\ method' = MethodArg
    /\ pc' = IF IsDirAt(fsys, Resolve(argv[2])) THEN "cd_open" ELSE "cf_open"
    /\ UNCHANGED <<fsys, charSigned, session, log, runVars, exitStatus, raised,
                   diag, engineVars, ioVars>>

\* mode "d": decompressToDirectory.
MainDecompress ==
    /\ MainReady
    /\ CanOpenForRead(fsys, argv[2])
    /\ argv[1] = mD
    /\ pc' = "dx_start"
    /\ UNCHANGED <<fsys, charSigned, session, log, runVars, method, exitStatus,
                   raised, diag, engineVars, ioVars>>

\* any other mode: "Unknown mode", return 1.
MainUnknownMode ==
    /\ MainReady
    /\ CanOpenForRead(fsys, argv[2])
    /\ argv[1] # mC
    /\ argv[1] # mD
    /\ Exit(1, "unknownmode")
    /\ UNCHANGED <<fsys, charSigned, session, log, runVars, method, raised,
                   engineVars, ioVars>>

\* throw std::runtime_error / fs::filesystem_error
Throw(kind) ==
    /\ raised' = kind
    /\ pc' = "unwind"

\* The stack unwinds (automatic FileWriters flush and close, FileReaders
\* close); main's catch prints the error and returns 1.  An exception out of
\* a direct call of listArchiveContents goes to its caller.
Unwind ==
    /\ pc = "unwind"
    /\ LET r == CloseAuto(sinks, fsys, 1)
       IN  /\ sinks' = r.sks
           /\ fsys' = r.fs
    /\ rd' = NoSource
    /\ inp' = NoInput
    /\ IF entry = "main" THEN Exit(1, "exception") ELSE Exit(NoStatus, "none")
    /\ UNCHANGED <<charSigned, session, log, runVars, method, raised, calls,
                   walk, cur, printed, made, ioVars>>

\* The process is gone; the next run starts from a fresh process image.
Reap ==
    /\ pc = "exited"
    /\ log' = Append(log, [entry |-> entry, args |-> argv, status |-> exitStatus,
                           raised |-> raised, diag |-> diag, printed |-> printed,
                           created |-> [i \in 1..Len(sinks) |-> sinks[i].path],
                           calls |-> calls])
    /\ pc' = "idle"
    /\ entry' = "main"
    /\ argv' = <<>>
    /\ method' = <<>>
    /\ exitStatus' = NoStatus
    /\ raised' = "none"
    /\ diag' = "none"
    /\ calls' = <<>>
    /\ sinks' = <<>>
    /\ rd' = NoSource
    /\ inp' = NoInput
    /\ walk' = {}
    /\ cur' = NoCur
    /\ printed' = <<>>
    /\ made' = {}
    /\ dropped' = FALSE
    /\ readFailed' = FALSE
    /\ UNCHANGED <<fsys, charSigned, session, faults>>

\* -------------------------------------------------------------- the engine
\* The engine reads the input through FileReader::get/read, which report a
\* failed read like the end of the file.
Readable(src) == IF src.failed THEN <<>> ELSE src.items

\* compress(ChunkMax) of the chunked interface, on what is left of the input:
\* the payload items it writes, what is left after it, and its result (true:
\* the full chunk was read, there may be more).
CompressChunk(items) ==
    IF items # <<>> /\ items[1].t = "raw" /\ items[1].n >= ChunkMax
    THEN [out |-> <<Data(items[1].b, ChunkMax)>>,
          left |-> IF items[1].n = ChunkMax THEN Tail(items)
                   ELSE <<Raw(items[1].b, items[1].n - ChunkMax)>> \o Tail(items),
          more |-> TRUE]
    ELSE [out |-> [i \in 1..Len(items) |-> Payload(items[i])],
          left |-> <<>>,
          more |-> FALSE]

RECURSIVE CompressAll(_)
CompressAll(items) ==
    LET r == CompressChunk(items)
    IN  IF r.more THEN r.out \o CompressAll(r.left) ELSE r.out

\* libzpaq::compress(in, out, method, filename, comment, dosha1): one block
\* with one segment named filename.
OneShot(level, filename, items) ==
    <<Hdr(level), NameItem(filename)>> \o CompressAll(items) \o <<SegEnd, BlockEnd>>

\* The sink the engine writes to is the last one constructed.
PutItems(items) ==
    LET i == Len(sinks)
        r == SinkPutAll(sinks[i], fsys, items)
    IN  /\ sinks' = [sinks EXCEPT ![i] = r.sk]
        /\ fsys' = r.fs
        /\ dropped' = (dropped \/ (sinks[i].bad /\ items # <<>>))

\* ------------------------------------------------------------ compressFile
\* FileReader in(input); FileWriter out(output);
CFOpen ==
    /\ pc = "cf_open"
    /\ IF ~CanOpenForRead(fsys, argv[2])
       THEN /\ Throw("OpenError")
            /\ UNCHANGED <<fsys, sinks, inp>>
       ELSE IF ~CanOpenForWrite(fsys, argv[3])
       THEN /\ Throw("OpenError")
            /\ UNCHANGED <<fsys, sinks, inp>>
       ELSE /\ fsys' = OpenForWrite(fsys, argv[3])
            /\ inp' = [open |-> TRUE, failed |-> FALSE,
                       items |-> ContentAt(fsys, argv[2])]
            /\ sinks' = Append(sinks, NewSink(argv[3], TRUE))
            /\ pc' = "cf_compress"
            /\ UNCHANGED raised
    /\ UNCHANGED <<charSigned, session, log, runVars, method, exitStatus, diag,
                   calls, rd, walk, cur, printed, made, ioVars>>

\* libzpaq::compress(&in, &out, method.c_str(), input.c_str(), nullptr, true)
CFCompress ==
    /\ pc = "cf_compress"
    /\ PutItems(OneShot(Atoi(method), CString(argv[2]), Readable(inp)))
    /\ readFailed' = (readFailed \/ (inp.failed /\ inp.items # <<>>))
    /\ inp' = [inp EXCEPT !.items = <<>>]
    /\ calls' = Append(calls, Call("compress", CString(argv[2]), FALSE))
    /\ pc' = "cf_return"
    /\ UNCHANGED <<charSigned, session, log, runVars, method, exitStatus, raised,
                   diag, rd, walk, cur, printed, made, faults>>

\* compressFile returns (out and in are destroyed), main returns 0.
CFReturn ==
    /\ pc = "cf_return"
    /\ LET r == CloseAuto(sinks, fsys, 1)
       IN  /\ sinks' = r.sks
           /\ fsys' = r.fs
    /\ inp' = NoInput
    /\ Exit(0, "ok")
    /\ UNCHANGED <<charSigned, session, log, runVars, method, raised, calls,
                   rd, walk, cur, printed, made, ioVars>>

\* ------------------------------------------------------- compressDirectory
\* libzpaq::Compressor c; c.setOutput(new FileWriter(output));
CDOpen ==
    /\ pc = "cd_open"
    /\ IF ~CanOpenForWrite(fsys, argv[3])
       THEN /\ Throw("OpenError")
            /\ UNCHANGED <<fsys, sinks>>
       ELSE /\ fsys' = OpenForWrite(fsys, argv[3])
            /\ sinks' = Append(sinks, NewSink(argv[3], FALSE))
            /\ pc' = "cd_startblock"
            /\ UNCHANGED raised
    /\ UNCHANGED <<charSigned, session, log, runVars, method, exitStatus, diag,
                   calls, rd, inp, walk, cur, printed, made, ioVars>>

\* The entries fs::recursive_directory_iterator(inputDir) yields.
Below(fs, root) == {e \in fs : Len(e.path) > Len(root) /\ IsPrefix(root, e.path)}

\* c.startBlock(atoi(method.c_str())); the iteration begins.
CDStartBlock ==
    /\ pc = "cd_startblock"
    /\ PutItems(<<Hdr(Atoi(method))>>)
    /\ calls' = Append(calls, Call("startBlock", <<Atoi(method)>>, FALSE))
    /\ walk' = {e.path : e \in Below(fsys, Resolve(argv[2]))}
    /\ pc' = "cd_iter"
    /\ UNCHANGED <<charSigned, session, log, runVars, method, exitStatus, raised,
                   diag, rd, inp, cur, printed, made, faults, readFailed>>

\* The iterator yields an entry that is not a regular file.
CDSkip ==
    /\ pc = "cd_iter"
    /\ \E p \in walk :
         /\ ~IsFileAt(fsys, p)
         /\ walk' = walk \ {p}
    /\ UNCHANGED <<fsys, charSigned, session, log, pc, runVars, method,
                   exitStatus, raised, diag, calls, sinks, rd, inp, cur, printed, made,
                   ioVars>>

\* The iterator yields a regular file:
\* relativePath = fs::relative(entry.path(), inputDir).string();
\* c.startSegment(relativePath.c_str());
CDStartSegment ==
    /\ pc = "cd_iter"
    /\ \E p \in walk :
         /\ IsFileAt(fsys, p)
         /\ walk' = walk \ {p}
         /\ LET rel == RelativeName(p, Resolve(argv[2]))
            IN  /\ cur' = [name |-> rel, delivered |-> <<>>, path |-> p]
                /\ PutItems(<<NameItem(CString(rel))>>)
                /\ calls' = Append(calls, Call("startSegment", CString(rel), FALSE))
    /\ pc' = "cd_openin"
    /\ UNCHANGED <<charSigned, session, log, runVars, method, exitStatus, raised,
                   diag, rd, inp, printed, made, faults, readFailed>>

\* FileReader in(entry.path().string()) throws.
CDOpenInputFail ==
    /\ pc = "cd_openin"
    /\ ~At(fsys, cur.path).readable
    /\ Throw("OpenError")
    /\ UNCHANGED <<fsys, charSigned, session, log, runVars, method, exitStatus,
                   diag, engineVars, ioVars>>

\* FileReader in(entry.path().string()); c.setInput(&in);
CDOpenInput ==
    /\ pc = "cd_openin"
    /\ At(fsys, cur.path).readable
    /\ inp' = [open |-> TRUE, failed |-> FALSE, items |-> At(fsys, cur.path).content]
    /\ pc' = "cd_compress"
    /\ UNCHANGED <<fsys, charSigned, session, log, runVars, method, exitStatus,
                   raised, diag, calls, sinks, rd, walk, cur, printed, made, ioVars>>

\* One turn of  while (c.compress(1000000));
CDCompress ==
    /\ pc = "cd_compress"
    /\ LET r == CompressChunk(Readable(inp))
       IN  /\ PutItems(r.out)
           /\ inp' = [inp EXCEPT !.items = IF inp.failed THEN @ ELSE r.left]
           /\ calls' = Append(calls, Call("compress", <<ChunkMax>>, r.more))
           /\ pc' = IF r.more THEN "cd_compress" ELSE "cd_endseg"
    /\ readFailed' = (readFailed \/ (inp.failed /\ inp.items # <<>>))
    /\ UNCHANGED <<charSigned, session, log, runVars, method, exitStatus, raised,
                   diag, rd, walk, cur, printed, made, faults>>

\* CDEndSegment without the call of endSegment.
CDEndSegmentOmitted ==
    /\ pc = "cd_endseg"
    /\ inp' = NoInput
    /\ pc' = "cd_iter"
    /\ UNCHANGED <<fsys, sinks, dropped, calls, charSigned, session, log, runVars,
                   method, exitStatus, raised, diag, rd, walk, cur, printed, made,
                   faults, readFailed>>

\* c.endSegment(); the loop body ends and `in` is destroyed.
CDEndSegment ==
    /\ pc = "cd_endseg"
    /\ PutItems(<<SegEnd>>)
    /\ calls' = Append(calls, Call("endSegment", <<>>, FALSE))
    /\ inp' = NoInput
    /\ pc' = "cd_iter"
    /\ UNCHANGED <<charSigned, session, log, runVars, method, exitStatus, raised,
                   diag, rd, walk, cur, printed, made, faults, readFailed>>

\* The iteration is over: c.endBlock();
CDEndBlock ==
    /\ pc = "cd_iter"
    /\ walk = {}
    /\ PutItems(<<BlockEnd>>)
    /\ calls' = Append(calls, Call("endBlock", <<>>, FALSE))
    /\ pc' = "cd_return"
    /\ UNCHANGED <<charSigned, session, log, runVars, method, exitStatus, raised,
                   diag, rd, inp, walk, cur, printed, made, faults, readFailed>>

\* compressDirectory returns: c is destroyed, which leaves the FileWriter it
\* was given alone; main returns 0.
CDReturn ==
    /\ pc = "cd_return"
    /\ Exit(0, "ok")
    /\ UNCHANGED <<fsys, charSigned, session, log, runVars, method, raised,
                   engineVars, ioVars>>

\* ------------------------------------------------------ the engine, reading
\* findBlock: scans forward to a block header.
HeaderAt(items) ==
    LET hs == {i \in 1..Len(items) : items[i].t = "hdr"}
    IN  IF hs = {} THEN 0 ELSE CHOOSE i \in hs : \A j \in hs : i <= j

AfterHeader(items) == SubSeq(items, HeaderAt(items) + 1, Len(items))

\* decompress(ChunkMax) on what is left of the archive: whether the stream
\* decodes, the bytes it writes, what is left after it, and its result
\* (true: a full chunk was decoded, there may be more).
DecodeChunk(items) ==
    LET small == {j \in 0..Len(items) :
                    \A i \in 1..j : items[i].t = "data" /\ ~IsFullPiece(items[i])}
        k == CHOOSE j \in small : \A m \in small : m <= j
    IN  IF items # <<>> /\ IsFullPiece(items[1])
        THEN [ok |-> TRUE, out |-> <<Unpayload(items[1])>>, left |-> Tail(items),
              more |-> TRUE]
        ELSE IF k < Len(items) /\ items[k + 1].t = "end"
        THEN [ok |-> TRUE, out |-> [i \in 1..k |-> Unpayload(items[i])],
              left |-> SubSeq(items, k + 1, Len(items)), more |-> FALSE]
        ELSE [ok |-> FALSE, out |-> <<>>, left |-> items, more |-> FALSE]

NextIs(items, t) == items # <<>> /\ items[1].t = t

SawFailedRead == readFailed \/ (rd.failed /\ rd.items # <<>>)

\* ---------------------------------------------------- decompressToDirectory
\* fs::create_directories(outputDir); FileReader in(input); d.setInput(&in);
DXStart ==
    /\ pc = "dx_start"
    /\ IF ~CanCreateDirectories(fsys, argv[3])
       THEN /\ Throw("FsError")
            /\ UNCHANGED <<fsys, rd, made>>
       ELSE IF ~CanOpenForRead(CreateDirectories(fsys, argv[3]), argv[2])
       THEN /\ Throw("OpenError")
            /\ fsys' = CreateDirectories(fsys, argv[3])
            /\ made' = made \cup NewDirectories(fsys, argv[3])
            /\ UNCHANGED rd
       ELSE /\ fsys' = CreateDirectories(fsys, argv[3])
            /\ made' = made \cup NewDirectories(fsys, argv[3])
            /\ rd' = [open |-> TRUE, failed |-> FALSE,
                      items |-> ContentAt(fsys, argv[2])]
            /\ pc' = "dx_findblock"
            /\ UNCHANGED raised
    /\ UNCHANGED <<charSigned, session, log, runVars, method, exitStatus, diag,
                   calls, sinks, inp, walk, cur, printed, ioVars>>

\* DXNoBlock without the test of findBlock's result.
DXNoBlockIgnored ==
    /\ pc = "dx_findblock"
    /\ HeaderAt(Readable(rd)) = 0
    /\ calls' = Append(calls, Call("findBlock", <<>>, FALSE))
    /\ readFailed' = SawFailedRead
    /\ pc' = "dx_findfilename"
    /\ UNCHANGED <<fsys, charSigned, session, log, runVars, method, exitStatus,
                   raised, diag, sinks, rd, inp, walk, cur, printed, made, faults,
                   dropped>>

\* !d.findBlock(&memory): throw std::runtime_error("No valid ZPAQ block ...")
DXNoBlock ==
    /\ pc = "dx_findblock"
    /\ HeaderAt(Readable(rd)) = 0
    /\ calls' = Append(calls, Call("findBlock", <<>>, FALSE))
    /\ readFailed' = SawFailedRead
    /\ Throw("FormatError")
    /\ UNCHANGED <<fsys, charSigned, session, log, runVars, method, exitStatus,
                   diag, sinks, rd, inp, walk, cur, printed, made, faults, dropped>>

DXFindBlock ==
    /\ pc = "dx_findblock"
    /\ HeaderAt(Readable(rd)) # 0
    /\ calls' = Append(calls, Call("findBlock", <<>>, TRUE))
    /\ rd' = [rd EXCEPT !.items = AfterHeader(@)]
    /\ pc' = "dx_findfilename"
    /\ UNCHANGED <<fsys, charSigned, session, log, runVars, method, exitStatus,
                   raised, diag, sinks, inp, walk, cur, printed, made, ioVars>>

\* d.findFilename() finds a segment.
DXFindFilename ==
    /\ pc = "dx_findfilename"
    /\ NextIs(Readable(rd), "name")
    /\ calls' = Append(calls, Call("findFilename", <<>>, TRUE))
    /\ cur' = [name |-> <<>>, delivered |-> rd.items[1].name, path |-> <<>>]
    /\ rd' = [rd EXCEPT !.items = Tail(@)]
    /\ pc' = "dx_readname"
    /\ UNCHANGED <<fsys, charSigned, session, log, runVars, method, exitStatus,
                   raised, diag, sinks, inp, walk, printed, made, ioVars>>

\* d.findFilename() reports the end of the block.
DXNoMoreSegments ==
    /\ pc = "dx_findfilename"
    /\ NextIs(Readable(rd), "eob")
    /\ calls' = Append(calls, Call("findFilename", <<>>, FALSE))
    /\ rd' = [rd EXCEPT !.items = Tail(@)]
    /\ pc' = "dx_return"
    /\ UNCHANGED <<fsys, charSigned, session, log, runVars, method, exitStatus,
                   raised, diag, sinks, inp, walk, cur, printed, made, ioVars>>

\* char buf[4096]; int len = 0;
\* while ((buf[len] = d.get()) != -1 && len < 4095) ++len;
\* buf[len] = 0; filename = buf;
DXReadName ==
    /\ pc = "dx_readname"
    /\ LET buf == ReadNameBuf(cur.delivered, charSigned)
       IN  /\ cur' = [cur EXCEPT !.name = CString(buf)]
           /\ calls' = Append(calls, Call("get", <<Len(buf) + 1>>, FALSE))
    /\ pc' = "dx_open"
    /\ UNCHANGED <<fsys, charSigned, session, log, runVars, method, exitStatus,
                   raised, diag, sinks, rd, inp, walk, printed, made, ioVars>>

\* OutPath without the output directory.
OutPathUnrooted == cur.name

\* fs::path outPath = fs::path(outputDir) / filename;
OutPath == PathAppend(argv[3], cur.name)

\* fs::create_directories(outPath.parent_path()) or FileWriter out(...) throws.
DXOpenOutFail ==
    /\ pc = "dx_open"
    /\ LET outPath == OutPath
           after == CreateDirectories(fsys, ParentPath(outPath))
       IN  IF ~CanCreateDirectories(fsys, ParentPath(outPath))
           THEN /\ Throw("FsError")
                /\ UNCHANGED <<fsys, made>>
           ELSE /\ ~CanOpenForWrite(after, outPath)
                /\ Throw("OpenError")
                /\ fsys' = after
                /\ made' = made \cup NewDirectories(fsys, ParentPath(outPath))
    /\ UNCHANGED <<charSigned, session, log, runVars, method, exitStatus, diag,
                   calls, sinks, rd, inp, walk, cur, printed, ioVars>>

\* fs::create_directories(outPath.parent_path());
\* FileWriter out(outPath.string()); d.setOutput(&out);
DXOpenOut ==
    /\ pc = "dx_open"
    /\ LET outPath == OutPath
           after == CreateDirectories(fsys, ParentPath(outPath))
       IN  /\ CanCreateDirectories(fsys, ParentPath(outPath))
           /\ CanOpenForWrite(after, outPath)
           /\ fsys' = OpenForWrite(after, outPath)
           /\ made' = made \cup NewDirectories(fsys, ParentPath(outPath))
           /\ sinks' = Append(sinks, NewSink(outPath, TRUE))
    /\ pc' = "dx_decompress"
    /\ UNCHANGED <<charSigned, session, log, runVars, method, exitStatus, raised,
                   diag, calls, rd, inp, walk, cur, printed, ioVars>>

\* One turn of  while (d.decompress(1000000));
DXDecompress ==
    /\ pc = "dx_decompress"
    /\ LET r == DecodeChunk(Readable(rd))
       IN  /\ r.ok
           /\ PutItems(r.out)
           /\ rd' = [rd EXCEPT !.items = r.left]
           /\ calls' = Append(calls, Call("decompress", <<ChunkMax>>, r.more))
           /\ pc' = IF r.more THEN "dx_decompress" ELSE "dx_segend"
    /\ UNCHANGED <<charSigned, session, log, runVars, method, exitStatus, raised,
                   diag, inp, walk, cur, printed, made, faults, readFailed>>

\* d.readSegmentEnd(sha1); "Extracted: ..."; the loop body ends and `out` is
\* destroyed.
DXReadSegmentEnd ==
    /\ pc = "dx_segend"
    /\ NextIs(Readable(rd), "end")
    /\ calls' = Append(calls, Call("readSegmentEnd", <<>>, FALSE))
    /\ rd' = [rd EXCEPT !.items = Tail(@)]
    /\ LET r == CloseAuto(sinks, fsys, 1)
       IN  /\ sinks' = r.sks
           /\ fsys' = r.fs
    /\ pc' = "dx_findfilename"
    /\ UNCHANGED <<charSigned, session, log, runVars, method, exitStatus, raised,
                   diag, inp, walk, cur, printed, made, ioVars>>

\* decompressToDirectory returns, main returns 0.
DXReturn ==
    /\ pc = "dx_return"
    /\ rd' = NoSource
    /\ Exit(0, "ok")
    /\ UNCHANGED <<fsys, charSigned, session, log, runVars, method, raised,
                   calls, sinks, inp, walk, cur, printed, made, ioVars>>

\* ----------------------------------------------------- listArchiveContents
\* FileReader in(input); d.setInput(&in);
LSOpen ==
    /\ pc = "ls_open"
    /\ IF ~CanOpenForRead(fsys, argv[1])
       THEN /\ Throw("OpenError")
            /\ UNCHANGED rd
       ELSE /\ rd' = [open |-> TRUE, failed |-> FALSE,
                      items |-> ContentAt(fsys, argv[1])]
            /\ pc' = "ls_findblock"
            /\ UNCHANGED raised
    /\ UNCHANGED <<fsys, charSigned, session, log, runVars, method, exitStatus,
                   diag, calls, sinks, inp, walk, cur, printed, made, ioVars>>

\* !d.findBlock(&memory): throw std::runtime_error("No valid ZPAQ block ...")
LSNoBlock ==
    /\ pc = "ls_findblock"
    /\ HeaderAt(Readable(rd)) = 0
    /\ calls' = Append(calls, Call("findBlock", <<>>, FALSE))
    /\ readFailed' = SawFailedRead
    /\ Throw("FormatError")
    /\ UNCHANGED <<fsys, charSigned, session, log, runVars, method, exitStatus,
                   diag, sinks, rd, inp, walk, cur, printed, made, faults, dropped>>

\* NullWriter nullOut; d.setOutput(&nullOut);
LSFindBlock ==
    /\ pc = "ls_findblock"
    /\ HeaderAt(Readable(rd)) # 0
    /\ calls' = Append(calls, Call("findBlock", <<>>, TRUE))
    /\ rd' = [rd EXCEPT !.items = AfterHeader(@)]
    /\ pc' = "ls_findfilename"
    /\ UNCHANGED <<fsys, charSigned, session, log, runVars, method, exitStatus,
                   raised, diag, sinks, inp, walk, cur, printed, made, ioVars>>

LSFindFilename ==
    /\ pc = "ls_findfilename"
    /\ NextIs(Readable(rd), "name")
    /\ calls' = Append(calls, Call("findFilename", <<>>, TRUE))
    /\ cur' = [name |-> <<>>, delivered |-> rd.items[1].name, path |-> <<>>]
    /\ rd' = [rd EXCEPT !.items = Tail(@)]
    /\ pc' = "ls_readname"
    /\ UNCHANGED <<fsys, charSigned, session, log, runVars, method, exitStatus,
                   raised, diag, sinks, inp, walk, printed, made, ioVars>>

LSNoMoreSegments ==
    /\ pc = "ls_findfilename"
    /\ NextIs(Readable(rd), "eob")
    /\ calls' = Append(calls, Call("findFilename", <<>>, FALSE))
    /\ rd' = [rd EXCEPT !.items = Tail(@)]
    /\ pc' = "ls_return"
    /\ UNCHANGED <<fsys, charSigned, session, log, runVars, method, exitStatus,
                   raised, diag, sinks, inp, walk, cur, printed, made, ioVars>>

\* The name is read as in decompressToDirectory, then
\* std::cout << filename << "\n";
LSReadName ==
    /\ pc = "ls_readname"
    /\ LET buf == ReadNameBuf(cur.delivered, charSigned)
           filename == CString(buf)
       IN  /\ cur' = [cur EXCEPT !.name = filename]
           /\ calls' = Append(calls, Call("get", <<Len(buf) + 1>>, FALSE))
           /\ printed' = Append(printed, filename)
    /\ pc' = "ls_decompress"
    /\ UNCHANGED <<fsys, charSigned, session, log, runVars, method, exitStatus,
                   raised, diag, sinks, rd, inp, walk, made, ioVars>>

\* One turn of  while (d.decompress(1000000));  into the NullWriter.
LSDecompress ==
    /\ pc = "ls_decompress"
    /\ LET r == DecodeChunk(Readable(rd))
       IN  /\ r.ok
           /\ rd' = [rd EXCEPT !.items = r.left]
           /\ calls' = Append(calls, Call("decompress", <<ChunkMax>>, r.more))
           /\ pc' = IF r.more THEN "ls_decompress" ELSE "ls_segend"
    /\ UNCHANGED <<fsys, charSigned, session, log, runVars, method, exitStatus,
                   raised, diag, sinks, inp, walk, cur, printed, made, ioVars>>

\* LSReadSegmentEnd without the call of readSegmentEnd.
LSReadSegmentEndOmitted ==
    /\ pc = "ls_segend"
    /\ pc' = "ls_findfilename"
    /\ UNCHANGED <<fsys, charSigned, session, log, runVars, method, exitStatus,
                   raised, diag, engineVars, ioVars>>

\* d.readSegmentEnd(sha1); the loop body ends.
LSReadSegmentEnd ==
    /\ pc = "ls_segend"
    /\ NextIs(Readable(rd), "end")
    /\ calls' = Append(calls, Call("readSegmentEnd", <<>>, FALSE))
    /\ rd' = [rd EXCEPT !.items = Tail(@)]
    /\ pc' = "ls_findfilename"
    /\ UNCHANGED <<fsys, charSigned, session, log, runVars, method, exitStatus,
                   raised, diag, sinks, inp, walk, cur, printed, made, ioVars>>

\* listArchiveContents returns to its caller.
LSReturn ==
    /\ pc = "ls_return"
    /\ rd' = NoSource
    /\ Exit(NoStatus, "ok")
    /\ UNCHANGED <<fsys, charSigned, session, log, runVars, method, raised,
                   calls, sinks, inp, walk, cur, printed, made, ioVars>>

\* The engine meets a stream it cannot decode and calls libzpaq::error:
\* std::fprintf(stderr, ...); std::exit(1);  No destructor of an automatic
\* object runs.
Undecodable ==
    \/ /\ pc \in {"dx_findfilename", "ls_findfilename"}
       /\ ~NextIs(Readable(rd), "name")
       /\ ~NextIs(Readable(rd), "eob")
    \/ /\ pc \in {"dx_decompress", "ls_decompress"}
       /\ ~DecodeChunk(Readable(rd)).ok
    \/ /\ pc \in {"dx_segend", "ls_segend"}
       /\ ~NextIs(Readable(rd), "end")

EngineError ==
    /\ Undecodable
    /\ readFailed' = SawFailedRead
    /\ Exit(1, "libzpaq")
    /\ UNCHANGED <<fsys, charSigned, session, log, runVars, method, raised,
                   engineVars, faults, dropped>>

\* ------------------------------------------------------------ environment
\* The device under an open FileWriter starts to fail (disk full).
WriteFault ==
    /\ faults < MaxFaults
    /\ \E i \in 1..Len(sinks) :
         /\ sinks[i].open
         /\ ~sinks[i].bad
         /\ sinks' = [sinks EXCEPT ![i].bad = TRUE]
    /\ faults' = faults + 1
    /\ UNCHANGED <<fsys, charSigned, session, log, pc, runVars, method,
                   exitStatus, raised, diag, calls, rd, inp, walk, cur, printed, made,
                   dropped, readFailed>>

\* The device under an open FileReader starts to fail.
ReadFault ==
    /\ faults < MaxFaults
    /\ \/ /\ inp.open /\ ~inp.failed
          /\ inp' = [inp EXCEPT !.failed = TRUE]
          /\ rd' = rd
       \/ /\ rd.open /\ ~rd.failed
          /\ rd' = [rd EXCEPT !.failed = TRUE]
          /\ inp' = inp
    /\ faults' = faults + 1
    /\ UNCHANGED <<fsys, charSigned, session, log, pc, runVars, method,
                   exitStatus, raised, diag, calls, sinks, walk, cur, printed, made,
                   dropped, readFailed>>

Next ==
    \/ Launch
    \/ MainUsage
    \/ MainInsufficient
    \/ MainNoInput
    \/ MainBadMethod
    \/ MainCompress
    \/ MainDecompress
    \/ MainUnknownMode
    \/ CFOpen
    \/ CFCompress
    \/ CFReturn
    \/ CDOpen
    \/ CDStartBlock
    \/ CDSkip
    \/ CDStartSegment
    \/ CDOpenInputFail
    \/ CDOpenInput
    \/ CDCompress
    \/ CDEndSegment
    \/ CDEndBlock
    \/ CDReturn
    \/ DXStart
    \/ DXNoBlock
    \/ DXFindBlock
    \/ DXFindFilename
    \/ DXNoMoreSegments
    \/ DXReadName
    \/ DXOpenOutFail
    \/ DXOpenOut
    \/ DXDecompress
    \/ DXReadSegmentEnd
    \/ DXReturn
    \/ LSOpen
    \/ LSNoBlock
    \/ LSFindBlock
    \/ LSFindFilename
    \/ LSNoMoreSegments
    \/ LSReadName
    \/ LSDecompress
    \/ LSReadSegmentEnd
    \/ LSReturn
    \/ EngineError
    \/ WriteFault
    \/ ReadFault
    \/ Unwind
    \/ Reap

Spec == Init /\ [][Next]_vars
\* ================================================================= claims
\* The current run, in the form of a log entry.
Now ==
    [entry |-> entry, args |-> argv, status |-> exitStatus, raised |-> raised,
     diag |-> diag, printed |-> printed,
     created |-> [i \in 1..Len(sinks) |-> sinks[i].path], calls |-> calls]

IsExtractRun == entry = "main" /\ (IF Len(argv) >= 3 THEN argv[1] = mD ELSE FALSE)
InsideRoot(p) == IsPrefix(Resolve(argv[3]), p)

\* C1: every file decompressToDirectory opens for writing, and every
\* directory it creates, lies inside the output root.
C1_ExtractStaysInsideRoot ==
    IsExtractRun =>
        /\ \A i \in 1..Len(sinks) : InsideRoot(sinks[i].path)
        /\ \A d \in made : InsideRoot(d)

\* An archive with a header first, the end of the block last, and as many
\* segment ends as names.
WellFormed(items) ==
    /\ Len(items) >= 2
    /\ items[1].t = "hdr"
    /\ items[Len(items)].t = "eob"
    /\ Cardinality({i \in 1..Len(items) : items[i].t = "name"})
         = Cardinality({i \in 1..Len(items) : items[i].t = "end"})

SegmentCount(items) == Cardinality({i \in 1..Len(items) : items[i].t = "name"})

\* C2: `l <input>` on a valid archive lists it and exits 0; it does not end
\* in the "insufficient arguments" or "unknown mode" exits.
C2_ListCommandLists ==
    (/\ pc = "exited"
     /\ entry = "main"
     /\ argv = <<mL, sIn>>
     /\ IsFileAt(fsys, pIn)
     /\ WellFormed(At(fsys, pIn).content))
    => /\ exitStatus = 0
       /\ diag \notin {"insufficient", "unknownmode"}
       /\ Len(printed) = SegmentCount(At(fsys, pIn).content)

\* C3: when the process ends, every FileWriter it constructed has been
\* flushed and closed.
C3_SinksClosedAtExit ==
    pc = "exited" => \A i \in 1..Len(sinks) : ~sinks[i].open

\* C4: once Extract or List has read a segment name longer than 4095 bytes,
\* the run is failing with a FormatError and has listed or created nothing.
C4_LongNameIsFormatError ==
    (Len(cur.delivered) > NameCap /\ pc \notin {"dx_readname", "ls_readname"})
    => /\ raised = "FormatError"
       /\ pc \in {"unwind", "exited"}
       /\ printed = <<>>
       /\ sinks = <<>>

NoBlockFound == \E i \in 1..Len(calls) : calls[i].op = "findBlock" /\ ~calls[i].ret

\* C5: when findBlock reports no block, Extract and List fail with the
\* "No valid ZPAQ block" error: findBlock stays the only engine call, no file
\* is opened for writing, no name is printed, and the run ends with exit
\* status 1 (main) or with the exception leaving listArchiveContents.
C5_NoBlockIsAnError ==
    NoBlockFound =>
        /\ Len(calls) = 1
        /\ sinks = <<>>
        /\ printed = <<>>
        /\ raised = "FormatError"
        /\ pc \in {"unwind", "exited"}
        /\ pc = "exited" =>
             IF entry = "main" THEN exitStatus = 1 /\ diag = "exception"
             ELSE exitStatus # 0

\* Witness of C5: List has just failed on an input on which Extract failed
\* with exit status 1, both for want of a block.
C5_Witness ==
    /\ pc = "exited"
    /\ entry = "list"
    /\ NoBlockFound
    /\ Len(log) = 1
    /\ log[1].args = <<mD, sIn, sOut>>
    /\ log[1].status = 1
    /\ log[1].raised = "FormatError"

\* C6: the process exits 0 only if every byte given to FileWriter::put/write
\* was accepted by the stream and no read of a FileReader failed.
C6_NoSilentIOError ==
    (pc = "exited" /\ exitStatus = 0) => (~dropped /\ ~readFailed)

ValidMethods == {<<d>> : d \in 48..53}
IsCompressRun ==
    /\ entry = "main"
    /\ pc \notin {"idle", "main"}
    /\ IF Len(argv) >= 3 THEN argv[1] = mC ELSE FALSE

\* C7: for `c`, the method defaults to "5"; a method string other than
\* "0".."5" ends the run with status 1 before any engine call and before the
\* output file is opened or created; every method "0".."5" passes.
C7_MethodValidation ==
    IsCompressRun =>
        /\ (Len(argv) = 3 /\ diag # "noinput") => method = <<53>>
        /\ (IF Len(argv) >= 4 THEN argv[4] \notin ValidMethods ELSE FALSE)
             => /\ pc = "exited"
                /\ exitStatus = 1
                /\ calls = <<>>
                /\ sinks = <<>>
                /\ ~Has(fsys, Resolve(argv[3]))
        /\ (IF Len(argv) >= 4 THEN argv[4] \in ValidMethods ELSE FALSE)
             => /\ diag # "badmethod"
                /\ diag # "noinput" => method = argv[4]

\* Witness of C7: `c in arc 6` has ended with the invalid-method diagnostic.
C7_Witness ==
    /\ pc = "exited"
    /\ entry = "main"
    /\ argv = <<mC, sIn, sArc, <<54>> >>
    /\ diag = "badmethod"
    /\ exitStatus = 1

\* The regular files below a directory: relative location and content.
TreeFiles(fs, root) ==
    {[rel |-> SubSeq(e.path, Len(root) + 1, Len(e.path)), content |-> e.content] :
        e \in {x \in Below(fs, root) : x.kind = "file"}}

\* C8: `c in arc` on a directory followed by `d arc out`, with no I/O fault,
\* ends with status 0 and with the regular files of in/ below out/, each at
\* its relative path and with its content, and nothing else.
C8_DirectoryRoundTrip ==
    (/\ pc = "exited"
     /\ entry = "main"
     /\ argv = <<mD, sArc, sOut>>
     /\ Len(log) = 1
     /\ log[1].args = <<mC, sIn, sArc>>
     /\ log[1].status = 0
     /\ IsDirAt(fsys, pIn)
     /\ faults = 0)
    => /\ exitStatus = 0
       /\ TreeFiles(fsys, pOut) = TreeFiles(fsys, pIn)

\* Extract (`d in out`) and List (of in) have both completed, one after the
\* other.
ExtractRun == IF entry = "main" THEN Now ELSE log[1]
ListRun == IF entry = "list" THEN Now ELSE log[1]
BothCompleted ==
    /\ pc = "exited"
    /\ Len(log) = 1
    /\ {entry, log[1].entry} = {"main", "list"}
    /\ ExtractRun.args = <<mD, sIn, sOut>>
    /\ ExtractRun.status = 0
    /\ ListRun.args = <<sIn>>
    /\ ListRun.diag = "ok"

Listed == {ListRun.printed[i] : i \in 1..Len(ListRun.printed)}
Created == {ExtractRun.created[i] : i \in 1..Len(ExtractRun.created)}
AllInsideOut == \A p \in Created : IsPrefix(pOut, p) /\ p # pOut

\* C9 as claimed, in the case that every file Extract created lies inside
\* the output root: the names List prints are the paths, relative to the
\* output root, of the files Extract creates, and both make the same engine
\* calls in the same order.
C9_ListExtractAgreeAlways ==
    (BothCompleted /\ AllInsideOut) =>
        /\ Listed = {RelativeName(p, pOut) : p \in Created}
        /\ ListRun.calls = ExtractRun.calls

\* C9 as amended: when both have completed they made the same engine calls
\* in the same order, and the i-th name List printed, resolved against the
\* output root, is the location of the i-th file Extract created.
C9_ListExtractAgree ==
    BothCompleted =>
        /\ ListRun.calls = ExtractRun.calls
        /\ Len(ListRun.printed) = Len(ExtractRun.created)
        /\ \A i \in 1..Len(ListRun.printed) :
             ExtractRun.created[i] = Resolve(PathAppend(sOut, ListRun.printed[i]))

\* Witness of C9: both have completed on an archive whose two names are
\* different strings for one location.
C9_Witness ==
    /\ BothCompleted
    /\ Cardinality(Listed) = 2
    /\ Cardinality(Created) = 1

\* C10: in compressDirectory startSegment is called only for a file whose
\* FileReader opens, and the output FileWriter exists before startBlock.
C10_FailFastOpen ==
    /\ \A i \in 1..Len(calls) :
         calls[i].op = "startSegment" =>
             At(fsys, Resolve(argv[2]) \o Components(calls[i].arg)).readable
    /\ (\E i \in 1..Len(calls) : calls[i].op = "startBlock") => sinks # <<>>

\* The engine calls that may follow the call c in compressDirectory.
MayFollow(c, d) ==
    IF c.op = "startBlock" THEN d.op \in {"startSegment", "endBlock"}
    ELSE IF c.op = "startSegment" THEN d.op = "compress"
    ELSE IF c.op = "compress"
         THEN (IF c.ret THEN d.op = "compress" ELSE d.op = "endSegment")
    ELSE IF c.op = "endSegment" THEN d.op \in {"startSegment", "endBlock"}
    ELSE FALSE

IsDirWriteRun == IsCompressRun /\ IsDirAt(fsys, Resolve(argv[2]))
CallsOf(op) == {i \in 1..Len(calls) : calls[i].op = op}
\* The relative paths of the regular files below the input directory.
RegularFilesBelow ==
    {RelativeName(e.path, Resolve(argv[2])) :
        e \in {x \in Below(fsys, Resolve(argv[2])) : x.kind = "file"}}

\* C11: in a run of compressDirectory the engine calls are a prefix of
\* startBlock, then per regular file startSegment(relative path),
\* compress(1000000) until it returns false, endSegment, and at last
\* endBlock: each file gets at most one segment, no segment starts before
\* the one before it has ended, and a run that returns normally has made
\* every file's segment and ends with the one endBlock.
C11_WriterCallOrder ==
    IsDirWriteRun =>
        /\ calls # <<>> => calls[1].op = "startBlock"
        /\ \A i \in 1..(Len(calls) - 1) : MayFollow(calls[i], calls[i + 1])
        /\ \A i \in CallsOf("compress") : calls[i].arg = <<ChunkMax>>
        /\ \A i \in CallsOf("startSegment") :
             /\ calls[i].arg \in RegularFilesBelow
             /\ \A j \in CallsOf("startSegment") : calls[j].arg = calls[i].arg => j = i
        /\ (pc = "exited" /\ exitStatus = 0) =>
             /\ CallsOf("endBlock") = {Len(calls)}
             /\ Cardinality(CallsOf("startSegment")) = Cardinality(RegularFilesBelow)
             /\ Cardinality(CallsOf("endSegment")) = Cardinality(RegularFilesBelow)

\* Witness of C11: compressDirectory has returned after two segments, one of
\* which took more than one compress call.
C11_Witness ==
    /\ IsDirWriteRun
    /\ pc = "exited"
    /\ exitStatus = 0
    /\ Cardinality(CallsOf("startSegment")) = 2
    /\ \E i \in CallsOf("compress") : calls[i].ret

\* The engine calls that may follow the call c in decompressToDirectory and
\* in listArchiveContents ("get" stands for the reads of the name).
ReaderMayFollow(c, d) ==
    IF c.op = "findBlock" THEN c.ret /\ d.op = "findFilename"
    ELSE IF c.op = "findFilename" THEN c.ret /\ d.op = "get"
    ELSE IF c.op = "get" THEN d.op = "decompress"
    ELSE IF c.op = "decompress"
         THEN (IF c.ret THEN d.op = "decompress" ELSE d.op = "readSegmentEnd")
    ELSE IF c.op = "readSegmentEnd" THEN d.op = "findFilename"
    ELSE FALSE

IsReaderRun == IsExtractRun \/ entry = "list"
ReaderCompleted ==
    /\ pc = "exited"
    /\ IF entry = "list" THEN diag = "ok" ELSE exitStatus = 0
FoundSegments == {i \in CallsOf("findFilename") : calls[i].ret}

\* C12: in Extract and in List the engine calls after findBlock go, for
\* every segment findFilename found, name reads, decompress(1000000) until it
\* returns false, readSegmentEnd once, and then the next findFilename; the
\* run is about to call findFilename only right after findBlock or
\* readSegmentEnd, and a run that completes has read the segment end of
\* every segment it found and made nothing after the findFilename that
\* reported no further segment.
C12_ReaderCallOrder ==
    IsReaderRun =>
        /\ calls # <<>> => calls[1].op = "findBlock"
        /\ \A i \in 1..(Len(calls) - 1) : ReaderMayFollow(calls[i], calls[i + 1])
        /\ \A i \in CallsOf("decompress") : calls[i].arg = <<ChunkMax>>
        /\ pc \in {"dx_findfilename", "ls_findfilename"} =>
             calls[Len(calls)].op \in {"findBlock", "readSegmentEnd"}
        /\ ReaderCompleted =>
             /\ calls[Len(calls)].op = "findFilename"
             /\ ~calls[Len(calls)].ret
             /\ Cardinality(CallsOf("readSegmentEnd")) = Cardinality(FoundSegments)

\* Witness of C12: List has completed on an archive of two segments, one of
\* them longer than one chunk, on which Extract completed before it.
C12_Witness ==
    /\ entry = "list"
    /\ ReaderCompleted
    /\ Cardinality(CallsOf("readSegmentEnd")) = 2
    /\ \E i \in CallsOf("decompress") : calls[i].ret
    /\ Len(log) = 1
    /\ log[1].args = <<mD, sIn, sOut>>
    /\ log[1].status = 0

NameWasRead == calls # <<>> /\ calls[Len(calls)].op # "findFilename"

\* C13: the name Extract or List has read for a segment is every byte the
\* engine delivered before its end-of-stream sentinel, up to the cap of 4095
\* bytes, whatever the values of the bytes (255 included), and reading it
\* took at most 4096 reads.
C13_ReadNameKeepsEveryByte ==
    (IsReaderRun /\ NameWasRead /\ pc \notin {"dx_readname", "ls_readname"}) =>
        /\ cur.name = SubSeq(cur.delivered, 1, Min(Len(cur.delivered), NameCap))
        /\ \A i \in CallsOf("get") : calls[i].arg[1] <= NameCap + 1
====
